---- MODULE Spec2Model ----
(***************************************************************************)
(* The asteroids simulation (game.ts) and its host loop (setupGame).       *)
(*                                                                         *)
(* Number representation.  The program computes in IEEE doubles; the model *)
(* uses integers in fixed point:                                           *)
(*   lengths and positions   1/100 pixel  (Px(30) is 30 pixels)            *)
(*   velocities              pixel/second, rounded to the nearest integer  *)
(*   timestamps, durations   millisecond, multiples of 10                  *)
(*   direction components    1/10000       (One is 1.0)                    *)
(*   fade alpha              1/2000        (AlphaOne is 1.0)               *)
(*   health                  [n, r]: n hundredths, r the sign of the       *)
(*                           rounding residue of the double w.r.t. n/100   *)
(* NaN is a distinguished value; the operators that can meet it treat it   *)
(* as IEEE does (every comparison with NaN is false, arithmetic gives NaN).*)
(***************************************************************************)
EXTENDS Integers, Sequences, FiniteSets, TLC

\* ------------------------------------------------------------------------
\* Fixed-point arithmetic
\* ------------------------------------------------------------------------
Scale == 10 * 10
One == 100 * 100
AlphaOne == 2 * 1000
NaN == 0 - (2 ^ 30)

Px(n) == n * Scale

IsNaN(a) == a = NaN
Min(a, b) == IF a <= b THEN a ELSE b
Max(a, b) == IF a >= b THEN a ELSE b

\* a / b rounded to the nearest integer (b > 0)
DivRound(a, b) ==
    IF a >= 0 THEN (2 * a + b) \div (2 * b)
              ELSE 0 - ((2 * (0 - a) + b) \div (2 * b))

\* IEEE a < b and a > b: false as soon as one side is NaN
Lt(a, b) == ~IsNaN(a) /\ ~IsNaN(b) /\ a < b
Gt(a, b) == ~IsNaN(a) /\ ~IsNaN(b) /\ a > b

RECURSIVE SqrtIter(_, _)
SqrtIter(n, g) ==
    LET h == (g + n \div g) \div 2
    IN  IF h < g THEN SqrtIter(n, h) ELSE g

\* square root rounded to the nearest integer
Sqrt(n) ==
    IF n = 0 THEN 0
    ELSE LET f == SqrtIter(n, n)
         IN  IF n - f * f > f THEN f + 1 ELSE f

\* Math.hypot on two numbers of the same scale; NaN if one of them is NaN
Hypot(x, y) ==
    IF IsNaN(x) \/ IsNaN(y) THEN NaN ELSE Sqrt(x * x + y * y)

\* (a / length) in direction fixed point, 0/0 = NaN
UnitComponent(a, length) ==
    IF IsNaN(a) \/ IsNaN(length) \/ length = 0 THEN NaN
    ELSE DivRound(a * One, length)

\* (a / length) * speed in pixel/second
ScaledComponent(a, length, speed) ==
    IF IsNaN(a) \/ IsNaN(length) \/ length = 0 THEN NaN
    ELSE DivRound(a * speed, length)

\* position += velocity * (deltaTime / 1000), shared by the three entities
Integrate(position, velocity, deltaTime) ==
    [x |-> IF IsNaN(position.x) \/ IsNaN(velocity.x) THEN NaN
           ELSE position.x + (velocity.x * deltaTime) \div 10,
     y |-> IF IsNaN(position.y) \/ IsNaN(velocity.y) THEN NaN
           ELSE position.y + (velocity.y * deltaTime) \div 10]

Vec(x, y) == [x |-> x, y |-> y]
Dim(w, h) == [width |-> w, height |-> h]

\* ------------------------------------------------------------------------
\* Bullet
\* ------------------------------------------------------------------------
BulletSpeed == 1000
BulletSize == Dim(Px(10), Px(10))

\* Mutant: the constructor without its length guard.
Bullet_new_noGuard(position, d) ==
    LET length == Hypot(d.x, d.y)
    IN  [threw |-> FALSE,
         bullet |-> [position |-> position,
                     velocity |-> Vec(ScaledComponent(d.x, length, BulletSpeed),
                                      ScaledComponent(d.y, length, BulletSpeed))]]

\* The constructor: a record with threw = TRUE stands for the thrown Error.
\* NaN <= 0 is false, so a NaN length passes the guard.
Bullet_new(position, d) ==
    LET length == Hypot(d.x, d.y)
    IN  IF ~IsNaN(length) /\ length <= 0 THEN [threw |-> TRUE]
        ELSE [threw |-> FALSE,
              bullet |-> [position |-> position,
                          velocity |-> Vec(ScaledComponent(d.x, length, BulletSpeed),
                                           ScaledComponent(d.y, length, BulletSpeed))]]

Bullet_update(b, deltaTime) ==
    [b EXCEPT !.position = Integrate(b.position, b.velocity, deltaTime)]

\* ------------------------------------------------------------------------
\* Player
\* ------------------------------------------------------------------------
PlayerSpeed == 500
PlayerSize == Dim(Px(30), Px(30))

\* The outcomes of rounding one floating-point addition: the result lies
\* below, on or above the double nearest to the exact decimal.
Rounding == {0 - 1, 0, 1}

FullHealth == [n |-> 100, r |-> 0]

Player_new(position) ==
    [position |-> position, velocity |-> Vec(0, 0), health |-> FullHealth]

Player_update(p, deltaTime) ==
    [p EXCEPT !.position = Integrate(p.position, p.velocity, deltaTime)]

Player_stopMoving(p) == [p EXCEPT !.velocity = Vec(0, 0)]

\* Mutant: move([0, 0]) leaves the velocity as it is.
Player_move_coasting(p, d) ==
    LET length == Hypot(d.x, d.y)
    IN  IF Gt(length, 0)
        THEN [p EXCEPT !.velocity = Vec(ScaledComponent(d.x, length, PlayerSpeed),
                                        ScaledComponent(d.y, length, PlayerSpeed))]
        ELSE p

Player_move(p, d) ==
    LET p1 == IF d.x = 0 /\ d.y = 0 THEN Player_stopMoving(p) ELSE p
        length == Hypot(d.x, d.y)
    IN  IF Gt(length, 0)
        THEN [p1 EXCEPT !.velocity = Vec(ScaledComponent(d.x, length, PlayerSpeed),
                                         ScaledComponent(d.y, length, PlayerSpeed))]
        ELSE p1

Player_fire(p, d) ==
    Bullet_new(Vec(p.position.x + PlayerSize.width \div 2 - BulletSize.width \div 2,
                   p.position.y + PlayerSize.height \div 2 - BulletSize.height \div 2),
               d)

\* Mutant: hit without the floor at 0.
Player_hit_noFloor(health, rnd) == [n |-> health.n - 20, r |-> rnd]

\* health = Math.max(0, health - .2).  health - .2 is exact when it lands
\* next to 0 (both operands within a factor 2), so the residue survives there.
Player_hit(health, rnd) ==
    LET n == health.n - 20
    IN  IF n < 0 THEN [n |-> 0, r |-> 0]
        ELSE IF n = 0 THEN [n |-> 0, r |-> Max(health.r, 0)]
        ELSE [n |-> n, r |-> rnd]

\* health = Math.min(1, health + .01)
Player_heal(health, rnd) ==
    LET n == health.n + 1
    IN  IF n > 100 THEN [n |-> 100, r |-> 0]
        ELSE IF n = 100 THEN [n |-> 100, r |-> Min(rnd, 0)]
        ELSE [n |-> n, r |-> rnd]

\* health > 0
Player_isAlive(health) == health.n > 0 \/ health.r > 0

\* ------------------------------------------------------------------------
\* Asteroid
\* ------------------------------------------------------------------------
AsteroidSize == Dim(Px(15), Px(15))
FadeInDuration == 200
FadeOutDuration == 2000
MaxSpeed == 100

\* Math.random() returns u / 100 for the u handed in (0 <= u < 100)
Asteroid_getRandomPosition(bounds, ux, uy) ==
    Vec((ux * bounds.width) \div 100, (uy * bounds.height) \div 100)

Asteroid_getRandomVelocity(ux, uy) ==
    Vec((ux * MaxSpeed * 2) \div 100 - MaxSpeed, (uy * MaxSpeed * 2) \div 100 - MaxSpeed)

\* deathTimestamp: << >> is undefined, << t >> is the number t
Asteroid_new(position, velocity, timestamp) ==
    [position |-> position, velocity |-> velocity, color |-> "white",
     startTimestamp |-> timestamp, deathTimestamp |-> << >>]

Asteroid_hit(a, timestamp) ==
    [a EXCEPT !.velocity = Vec(0, 0), !.color = "yellow",
              !.deathTimestamp = << timestamp >>]

Asteroid_intersectPlayer(a, timestamp) ==
    [a EXCEPT !.velocity = Vec(0, 0), !.color = "green",
              !.deathTimestamp = << timestamp >>]

Asteroid_update(a, deltaTime) ==
    [a EXCEPT !.position = Integrate(a.position, a.velocity, deltaTime)]

\* !this.deathTimestamp: true of undefined and of the number 0
Falsy(deathTimestamp) == deathTimestamp = << >> \/ deathTimestamp[1] = 0

\* The alpha in units of 1/2000:
\*   elapsed / 200  is  10 * elapsed / 2000,  elapsed / 2000  is  elapsed / 2000
Asteroid_getFade(a, timestamp) ==
    IF Falsy(a.deathTimestamp)
    THEN Min(((timestamp - a.startTimestamp) * AlphaOne) \div FadeInDuration, AlphaOne)
    ELSE AlphaOne - Min(((timestamp - a.deathTimestamp[1]) * AlphaOne) \div FadeOutDuration,
                        AlphaOne)

\* ------------------------------------------------------------------------
\* Input visitors.  keys is the set of the keys k with keys[k] true; a touch
\* event is the sequence of its touches, << >> is "no event" (undefined).
\* A visit yields the player as mutated and what fire returned:
\* fired = << >> (undefined) or << bullet >>; threw when the constructor threw.
\* ------------------------------------------------------------------------
Axis(keys, minus, plus) ==
    (IF minus \in keys THEN 0 - One ELSE 0) + (IF plus \in keys THEN One ELSE 0)

FireOutcome(p, direction) ==
    IF direction.x # 0 \/ direction.y # 0
    THEN LET res == Player_fire(p, direction)
         IN  IF res.threw THEN [player |-> p, threw |-> TRUE, fired |-> << >>]
             ELSE [player |-> p, threw |-> FALSE, fired |-> << res.bullet >>]
    ELSE [player |-> p, threw |-> FALSE, fired |-> << >>]

KeyboardEventVisitor_visitPlayer(p, keys) ==
    IF ~Player_isAlive(p.health)
    THEN [player |-> Player_stopMoving(p), threw |-> FALSE, fired |-> << >>]
    ELSE LET move == Vec(Axis(keys, "ArrowLeft", "ArrowRight"),
                         Axis(keys, "ArrowUp", "ArrowDown"))
             direction == Vec(Axis(keys, "a", "d"), Axis(keys, "w", "s"))
         IN  FireOutcome(Player_move(p, move), direction)

\* the vector from the player to a touch point, divided by its length
TouchDirection(p, touch) ==
    LET dx == touch.clientX - p.position.x
        dy == touch.clientY - p.position.y
        length == Hypot(dx, dy)
    IN  Vec(UnitComponent(dx, length), UnitComponent(dy, length))

TouchEventVisitor_visitPlayer(p, touchEvent) ==
    LET move == IF Len(touchEvent) >= 1 THEN TouchDirection(p, touchEvent[1])
                ELSE Vec(0, 0)
        p1 == Player_move(p, move)
        direction == IF Len(touchEvent) >= 2 THEN TouchDirection(p1, touchEvent[2])
                     ELSE Vec(0, 0)
    IN  FireOutcome(p1, direction)

\* Player.accept: the visitor's visitPlayer
Player_accept(p, isTouchMode, keys, touchEvent) ==
    IF isTouchMode THEN TouchEventVisitor_visitPlayer(p, touchEvent)
    ELSE KeyboardEventVisitor_visitPlayer(p, keys)

\* ------------------------------------------------------------------------
\* accept.  A visitor is a record: kind "canvas" (CanvasDrawerVisitor),
\* "keyboard" with its keys, "touch" with its touch event, or "terminal", an
\* object of the TerminalVisitor interface (visitPlayer alone, drawing on a
\* terminal).  A dispatch yields the entity as the callback left it, what
\* the callback returned (fired), whether it threw, and whether accept
\* logged the warning of a missing callback (warned).
\* ------------------------------------------------------------------------
Methods(visitor) ==
    IF visitor.kind = "canvas" THEN {"visitPlayer", "visitBullet", "visitAsteroid"}
    ELSE {"visitPlayer"}

\* visitor[methodName](entity); the drawing callbacks read the entity only
\* and return nothing
Visit(entity, visitor) ==
    IF visitor.kind = "keyboard" THEN KeyboardEventVisitor_visitPlayer(entity, visitor.keys)
    ELSE IF visitor.kind = "touch"
    THEN TouchEventVisitor_visitPlayer(entity, visitor.touchEvent)
    ELSE [player |-> entity, threw |-> FALSE, fired |-> << >>]

\* Mutant: a missing callback is fatal.
Entity_accept_fatal(type, entity, visitor) ==
    IF ("visit" \o type) \in Methods(visitor)
    THEN [entity |-> Visit(entity, visitor).player, threw |-> Visit(entity, visitor).threw,
          fired |-> Visit(entity, visitor).fired, warned |-> FALSE]
    ELSE [entity |-> entity, threw |-> TRUE, fired |-> << >>, warned |-> FALSE]

\* The body the three accept methods share, type being the class's static
\* type ('Bullet', 'Player', 'Asteroid').
Entity_accept(type, entity, visitor) ==
    IF ("visit" \o type) \in Methods(visitor)
    THEN [entity |-> Visit(entity, visitor).player, threw |-> Visit(entity, visitor).threw,
          fired |-> Visit(entity, visitor).fired, warned |-> FALSE]
    ELSE [entity |-> entity, threw |-> FALSE, fired |-> << >>, warned |-> TRUE]

Bullet_accept(b, visitor) == Entity_accept("Bullet", b, visitor)
Asteroid_accept(a, visitor) == Entity_accept("Asteroid", a, visitor)

\* ------------------------------------------------------------------------
\* Game: helpers
\* ------------------------------------------------------------------------
Plus(a, b) == IF IsNaN(a) \/ IsNaN(b) THEN NaN ELSE a + b

\* Mutant: the first comparison is not strict.
Game_checkCollision_closed(pos1, size1, pos2, size2) ==
    /\ ~Gt(pos1.x, Plus(pos2.x, size2.width))
    /\ Gt(Plus(pos1.x, size1.width), pos2.x)
    /\ Lt(pos1.y, Plus(pos2.y, size2.height))
    /\ Gt(Plus(pos1.y, size1.height), pos2.y)

Game_checkCollision(pos1, size1, pos2, size2) ==
    /\ Lt(pos1.x, Plus(pos2.x, size2.width))
    /\ Gt(Plus(pos1.x, size1.width), pos2.x)
    /\ Lt(pos1.y, Plus(pos2.y, size2.height))
    /\ Gt(Plus(pos1.y, size1.height), pos2.y)

\* Mutant: a position on the right or the lower bound counts as offscreen.
Game_isOffscreen_closed(position, cv) ==
    \/ Lt(position.x, 0)
    \/ Gt(position.x, cv.width) \/ position.x = cv.width
    \/ Lt(position.y, 0)
    \/ Gt(position.y, cv.height) \/ position.y = cv.height

Game_isOffscreen(position, cv) ==
    \/ Lt(position.x, 0)
    \/ Gt(position.x, cv.width)
    \/ Lt(position.y, 0)
    \/ Gt(position.y, cv.height)

\* Array.prototype.splice(i, 1), i counted from 1
Splice(seq, i) == SubSeq(seq, 1, i - 1) \o SubSeq(seq, i + 1, Len(seq))

\* The k-th number Math.random() returns in one batch (k = 0, 1, ...), in
\* hundredths, for the generator state rs the batch starts from.
Random(rs, k) == (rs.add + rs.mul * k) % 100

\* addAsteroids(count): four Math.random() calls per asteroid, in the order
\* position.x, position.y, velocity.x, velocity.y
NewAsteroids(count, cv, timestamp, rs) ==
    [i \in 1..count |->
        Asteroid_new(
            Asteroid_getRandomPosition(cv, Random(rs, 4 * (i - 1)), Random(rs, 4 * (i - 1) + 1)),
            Asteroid_getRandomVelocity(Random(rs, 4 * (i - 1) + 2), Random(rs, 4 * (i - 1) + 3)),
            timestamp)]

Game_addAsteroids(as, count, cv, timestamp, rs) ==
    as \o NewAsteroids(count, cv, timestamp, rs)

\* Mutant: the inner loop ends at the first asteroid the bullet hits.
RECURSIVE BulletScan_firstOnly(_, _, _, _)
BulletScan_firstOnly(b, i, st, timestamp) ==
    IF i = 0 THEN st
    ELSE LET asteroid == st.asteroids[i]
         IN  IF Game_checkCollision(b.position, BulletSize, asteroid.position, AsteroidSize)
             THEN [st EXCEPT !.asteroids = Splice(st.asteroids, i),
                             !.destroyedAsteroid =
                                 Append(st.destroyedAsteroid, Asteroid_hit(asteroid, timestamp)),
                             !.destroyed = st.destroyed + 1,
                             !.heals = st.heals + 1]
             ELSE BulletScan_firstOnly(b, i - 1, st, timestamp)

\* The inner loop of the bullet sweep, for one bullet, from index i down to 1.
\* st = [bullets, asteroids, destroyedAsteroid, destroyed, heals, hitters]:
\* heals counts the calls of player.heal, hitters the bullets that hit at
\* least one asteroid (history; the code keeps no such count).
RECURSIVE BulletScan(_, _, _, _)
BulletScan(b, i, st, timestamp) ==
    IF i = 0 THEN st
    ELSE LET asteroid == st.asteroids[i]
         IN  IF Game_checkCollision(b.position, BulletSize, asteroid.position, AsteroidSize)
             THEN BulletScan(b, i - 1,
                    [st EXCEPT !.asteroids = Splice(st.asteroids, i),
                               !.destroyedAsteroid =
                                   Append(st.destroyedAsteroid, Asteroid_hit(asteroid, timestamp)),
                               !.destroyed = st.destroyed + 1,
                               !.heals = st.heals + 1],
                    timestamp)
             ELSE BulletScan(b, i - 1, st, timestamp)

\* Mutant: a bullet that hits an asteroid is taken out of this.bullets.
RECURSIVE BulletSweep_consuming(_, _, _)
BulletSweep_consuming(bs, st, timestamp) ==
    IF bs = << >> THEN st
    ELSE LET after == BulletScan(Head(bs), Len(st.asteroids), st, timestamp)
             hit == after.heals > st.heals
         IN  BulletSweep_consuming(Tail(bs),
                [after EXCEPT !.hitters = IF hit THEN @ + 1 ELSE @,
                              !.bullets = IF hit THEN Splice(@, Len(@) - Len(bs) + 1) ELSE @],
                timestamp)

\* for (const bullet of this.bullets) ...: bs are the bullets still to
\* scan; the loop leaves this.bullets (st.bullets) as it is.
RECURSIVE BulletSweep(_, _, _)
BulletSweep(bs, st, timestamp) ==
    IF bs = << >> THEN st
    ELSE LET after == BulletScan(Head(bs), Len(st.asteroids), st, timestamp)
         IN  BulletSweep(Tail(bs),
                         [after EXCEPT !.hitters =
                             IF after.heals > st.heals THEN @ + 1 ELSE @],
                         timestamp)

\* Mutant: the player sweep does not count the obstacles it destroys.
RECURSIVE PlayerSweep_uncounted(_, _, _, _)
PlayerSweep_uncounted(p, i, st, timestamp) ==
    IF i = 0 THEN st
    ELSE LET asteroid == st.asteroids[i]
         IN  IF Game_checkCollision(p.position, PlayerSize, asteroid.position, AsteroidSize)
             THEN PlayerSweep_uncounted(p, i - 1,
                    [asteroids |-> Splice(st.asteroids, i),
                     destroyedAsteroid |->
                        Append(st.destroyedAsteroid, Asteroid_intersectPlayer(asteroid, timestamp)),
                     destroyed |-> st.destroyed,
                     hits |-> st.hits + 1],
                    timestamp)
             ELSE PlayerSweep_uncounted(p, i - 1, st, timestamp)

\* Mutant: an obstacle that hit the player stays in this.asteroids.
RECURSIVE PlayerSweep_keeping(_, _, _, _)
PlayerSweep_keeping(p, i, st, timestamp) ==
    IF i = 0 THEN st
    ELSE LET asteroid == st.asteroids[i]
         IN  IF Game_checkCollision(p.position, PlayerSize, asteroid.position, AsteroidSize)
             THEN PlayerSweep_keeping(p, i - 1,
                    [asteroids |-> [st.asteroids EXCEPT
                                        ![i] = Asteroid_intersectPlayer(asteroid, timestamp)],
                     destroyedAsteroid |->
                        Append(st.destroyedAsteroid, Asteroid_intersectPlayer(asteroid, timestamp)),
                     destroyed |-> st.destroyed + 1,
                     hits |-> st.hits + 1],
                    timestamp)
             ELSE PlayerSweep_keeping(p, i - 1, st, timestamp)

\* The player sweep, from index i down to 1.
\* st = [asteroids, destroyedAsteroid, destroyed, hits]
RECURSIVE PlayerSweep(_, _, _, _)
PlayerSweep(p, i, st, timestamp) ==
    IF i = 0 THEN st
    ELSE LET asteroid == st.asteroids[i]
         IN  IF Game_checkCollision(p.position, PlayerSize, asteroid.position, AsteroidSize)
             THEN PlayerSweep(p, i - 1,
                    [asteroids |-> Splice(st.asteroids, i),
                     destroyedAsteroid |->
                        Append(st.destroyedAsteroid, Asteroid_intersectPlayer(asteroid, timestamp)),
                     destroyed |-> st.destroyed + 1,
                     hits |-> st.hits + 1],
                    timestamp)
             ELSE PlayerSweep(p, i - 1, st, timestamp)

\* The health values k calls of heal, then m calls of hit can leave,
\* one rounding outcome per call.
RECURSIVE HealTimes(_, _)
HealTimes(hs, k) ==
    IF k = 0 THEN hs
    ELSE HealTimes({Player_heal(h, rnd) : h \in hs, rnd \in Rounding}, k - 1)

RECURSIVE HitTimes(_, _)
HitTimes(hs, m) ==
    IF m = 0 THEN hs
    ELSE HitTimes({Player_hit(h, rnd) : h \in hs, rnd \in Rounding}, m - 1)

\* ------------------------------------------------------------------------
\* Bounds and the inputs drawn
\* ------------------------------------------------------------------------
MaxTicks == 3
MaxEvents == 2

\* the canvas element before the host sizes it (no width/height attribute)
DefaultCanvasWidth == 300
DefaultCanvasHeight == 150

\* window.innerWidth x window.innerHeight when the host is set up, and after
\* the window is resized
WindowAtSetup == Dim(Px(200), Px(100))
WindowsAfterResize == {Dim(Px(160), Px(120))}

\* performance.now() when the Game is constructed: the time origin, which a
\* coarse clock reports throughout its first quantum.  Nothing but the test
\* of the death timestamp in getFade depends on the absolute time.
NowAtSetup == {0}
\* timestamp of a frame minus the latest time the game has seen
FrameDelays == {0, 50}
\* performance.now() inside a frame minus the frame's timestamp
NowLags == {0, 10}

Keys == {"ArrowRight", "d", "Enter"}

Touch(x, y) == [clientX |-> Px(x), clientY |-> Px(y)]
\* two fingers on the point where the player starts; three fingers
TouchEvents ==
    { << Touch(150, 75), Touch(150, 75) >>,
      << Touch(200, 75), Touch(150, 0), Touch(0, 0) >> }

\* states of the random number generator a batch can start from
RandomStates == { [add |-> 50, mul |-> 0], [add |-> 5, mul |-> 15] }

SpawnFloor == 8
InitialBatch == 10
BatchUnit == 10
BatchStep == 50

\* ------------------------------------------------------------------------
\* State
\* ------------------------------------------------------------------------
VARIABLES
    player,             \* Game.player: [position, velocity, health]
    bullets,            \* Game.bullets
    asteroids,          \* Game.asteroids
    destroyedAsteroid,  \* Game.destroyedAsteroid
    destroyed,          \* Game.destroyed
    lastTime,           \* Game.lastTime
    dimensions,         \* Game.dimensions
    canvas,             \* canvas.width, canvas.height
    isTouch,            \* Game.isTouch
    keys,               \* setupGame: the keys k with keys[k] true
    touchEvent,         \* setupGame: touchEvent, << >> when undefined
    crashed,            \* a tick threw: the frame loop is not rescheduled
    ticks,              \* number of ticks run
    events,             \* number of host events handled
    last                \* what the latest step was (history, read by no action)

vars == << player, bullets, asteroids, destroyedAsteroid, destroyed, lastTime,
           dimensions, canvas, isTouch, keys, touchEvent, crashed, ticks, events, last >>

gameVars == << player, bullets, asteroids, destroyedAsteroid, destroyed, lastTime,
               dimensions, canvas, isTouch, crashed, ticks >>

Center(d) == Vec(d.width \div 2, d.height \div 2)

\* The history record: the handler that ran (op), for a tick the branch of
\* update it took (mode), its arguments and what it counted.
\* For a function called directly, args are its arguments and result what it
\* returned (<< >> when it returned undefined).
NoTick == [op |-> "setup", mode |-> "none", fired |-> << >>, direction |-> << >>,
           heals |-> 0, hitters |-> 0, hits |-> 0, spawned |-> 0,
           removedBullets |-> 0, removedAsteroids |-> 0,
           destroyedBefore |-> 0, timestamp |-> 0, deltaTime |-> 0,
           args |-> << >>, result |-> << >>]

\* new GameC(canvas) on the unsized canvas, then the host sizes the canvas
Game_new ==
    \E now \in NowAtSetup, rs \in RandomStates :
        LET cv == Dim(Px(DefaultCanvasWidth), Px(DefaultCanvasHeight))
        IN  /\ dimensions = cv
            /\ isTouch = FALSE
            /\ player = Player_new(Center(cv))
            /\ lastTime = now
            /\ bullets = << >>
            /\ destroyedAsteroid = << >>
            /\ destroyed = 0
            /\ asteroids = Game_addAsteroids(<< >>, InitialBatch, cv, now, rs)
            /\ canvas = WindowAtSetup
            /\ keys = {}
            /\ touchEvent = << >>
            /\ crashed = FALSE
            /\ ticks = 0
            /\ events = 0

Init == Game_new /\ last = NoTick

\* ------------------------------------------------------------------------
\* Host event handlers
\* ------------------------------------------------------------------------
\* the history after a handler that is not a tick: timestamp stays the one
\* of the latest tick
Event(name) == [NoTick EXCEPT !.op = name, !.timestamp = last.timestamp]

handleKeyDown(k) ==
    /\ events < MaxEvents
    /\ keys' = keys \cup {k}
    /\ touchEvent' = << >>
    /\ events' = events + 1
    /\ last' = Event("keydown")
    /\ UNCHANGED gameVars

handleKeyUp(k) ==
    /\ events < MaxEvents
    /\ k \in keys
    /\ keys' = keys \ {k}
    /\ events' = events + 1
    /\ last' = Event("keyup")
    /\ UNCHANGED << gameVars, touchEvent >>

handleTouchMove(e) ==
    /\ events < MaxEvents
    /\ touchEvent' = e
    /\ events' = events + 1
    /\ last' = Event("touchmove")
    /\ UNCHANGED << gameVars, keys >>

handleTouchEnd ==
    /\ events < MaxEvents
    /\ touchEvent # << >>
    /\ touchEvent' = << >>
    /\ events' = events + 1
    /\ last' = Event("touchend")
    /\ UNCHANGED << gameVars, keys >>

\* Mutant: the resize drops the obstacles outside the new bounds.
Game_resize_sweeping(d) ==
    /\ events < MaxEvents
    /\ dimensions' = d
    /\ canvas' = d
    /\ asteroids' = SelectSeq(asteroids, LAMBDA a : ~Game_isOffscreen(a.position, d))
    /\ events' = events + 1
    /\ last' = [Event("resize") EXCEPT !.args = << d >>]
    /\ UNCHANGED << player, bullets, destroyedAsteroid, destroyed, lastTime,
                    isTouch, crashed, ticks, keys, touchEvent >>

\* handleResize -> Game.resize
Game_resize(d) ==
    /\ events < MaxEvents
    /\ dimensions' = d
    /\ canvas' = d
    /\ events' = events + 1
    /\ last' = [Event("resize") EXCEPT !.args = << d >>]
    /\ UNCHANGED << player, bullets, asteroids, destroyedAsteroid, destroyed, lastTime,
                    isTouch, crashed, ticks, keys, touchEvent >>

\* ------------------------------------------------------------------------
\* Game.tick: update, then paint (paint changes no state)
\* ------------------------------------------------------------------------
\* Mutant: the three-finger gesture is not a trigger.
RestartTrigger_enterOnly == "Enter" \in keys

\* keys['Enter'] || touch?.touches.length === 3
RestartTrigger == "Enter" \in keys \/ Len(touchEvent) = 3

\* Mutant: the reset forgets the destroyed-count.
Game_initialState_keepsCount(now, rs) ==
    /\ player' = Player_new(Center(dimensions))
    /\ lastTime' = now
    /\ bullets' = << >>
    /\ destroyedAsteroid' = << >>
    /\ destroyed' = destroyed
    /\ asteroids' = Game_addAsteroids(<< >>, InitialBatch, canvas, now, rs)

\* Game.initialState, with performance.now() returning now
Game_initialState(now, rs) ==
    /\ player' = Player_new(Center(dimensions))
    /\ lastTime' = now
    /\ bullets' = << >>
    /\ destroyedAsteroid' = << >>
    /\ destroyed' = 0
    /\ asteroids' = Game_addAsteroids(<< >>, InitialBatch, canvas, now, rs)

\* Mutant: a touch event decides first, the keys only without one.
InputMode_touchWins ==
    IF touchEvent # << >> THEN TRUE
    ELSE IF keys # {} THEN FALSE ELSE isTouch

\* if (touch) setInputMode(true); if (some key) setInputMode(false)
InputMode ==
    LET afterTouch == IF touchEvent # << >> THEN TRUE ELSE isTouch
    IN  IF keys # {} THEN FALSE ELSE afterTouch

OnScreen(e) == ~Game_isOffscreen(e.position, canvas)

\* Mutant: the batch size without its base of one unit.
BatchSize_noBase(n) == BatchUnit * (n \div BatchStep)

\* 10 * (1 + Math.floor(destroyed / 50))
BatchSize(n) == BatchUnit * (1 + n \div BatchStep)

\* Mutant: the batch is sized by the destroyed-count the tick started with.
SpawnCount_stale(live, n) ==
    IF live < SpawnFloor THEN BatchSize(destroyed) ELSE 0

\* if (this.asteroids.length < 8) addAsteroids(...): the number added, for
\* live obstacles left and n obstacles destroyed so far
SpawnCount(live, n) ==
    IF live < SpawnFloor THEN BatchSize(n) ELSE 0

\* The update of a tick whose player is alive, up to the spawn: everything
\* but the health roundings and the random numbers.
RunningUpdate(timestamp, deltaTime) ==
    LET mode == InputMode
        visit == Player_accept(player, mode, keys, touchEvent)
        bullets1 == bullets \o visit.fired
        moved == Player_update(visit.player, deltaTime)
        bullets2 == SelectSeq(bullets1, OnScreen)
        asteroids1 == SelectSeq(asteroids, OnScreen)
        bullets3 == SelectSeq(bullets2, OnScreen)
        shot == BulletSweep(bullets3,
                    [bullets |-> bullets3, asteroids |-> asteroids1,
                     destroyedAsteroid |-> destroyedAsteroid,
                     destroyed |-> destroyed, heals |-> 0, hitters |-> 0],
                    timestamp)
        rammed == PlayerSweep(moved, Len(shot.asteroids),
                    [asteroids |-> shot.asteroids,
                     destroyedAsteroid |-> shot.destroyedAsteroid,
                     destroyed |-> shot.destroyed, hits |-> 0],
                    timestamp)
    IN  [mode |-> mode, visit |-> visit, moved |-> moved,
         removedBullets |-> Len(bullets1) - Len(bullets3),
         removedAsteroids |-> Len(asteroids) - Len(asteroids1),
         bullets |-> [i \in 1..Len(shot.bullets) |-> Bullet_update(shot.bullets[i], deltaTime)],
         asteroids |-> [i \in 1..Len(rammed.asteroids) |->
                            Asteroid_update(rammed.asteroids[i], deltaTime)],
         destroyedAsteroid |-> rammed.destroyedAsteroid,
         destroyed |-> rammed.destroyed,
         heals |-> shot.heals, hitters |-> shot.hitters, hits |-> rammed.hits]

\* Mutant: the input mode is decided before the player is found dead.
TickGameOver_setsMode(timestamp) ==
    /\ ~Player_isAlive(player.health)
    /\ ~RestartTrigger
    /\ lastTime' = timestamp
    /\ isTouch' = InputMode
    /\ last' = [NoTick EXCEPT !.op = "tick", !.mode = "gameover", !.destroyedBefore = destroyed,
                              !.timestamp = timestamp, !.deltaTime = timestamp - lastTime]
    /\ UNCHANGED << player, bullets, asteroids, destroyedAsteroid, destroyed, crashed >>

TickGameOver(timestamp) ==
    /\ ~Player_isAlive(player.health)
    /\ ~RestartTrigger
    /\ lastTime' = timestamp
    /\ last' = [NoTick EXCEPT !.op = "tick", !.mode = "gameover", !.destroyedBefore = destroyed,
                              !.timestamp = timestamp, !.deltaTime = timestamp - lastTime]
    /\ UNCHANGED << player, bullets, asteroids, destroyedAsteroid, destroyed, isTouch, crashed >>

TickRestart(timestamp, now, rs) ==
    /\ ~Player_isAlive(player.health)
    /\ RestartTrigger
    /\ Game_initialState(now, rs)
    /\ last' = [NoTick EXCEPT !.op = "tick", !.mode = "restart", !.spawned = InitialBatch,
                              !.destroyedBefore = destroyed,
                              !.timestamp = timestamp, !.deltaTime = timestamp - lastTime]
    /\ UNCHANGED << isTouch, crashed >>

\* fire threw: the update stops after the visitor has steered the player
TickThrows(timestamp, u) ==
    /\ u.visit.threw
    /\ lastTime' = timestamp
    /\ isTouch' = u.mode
    /\ player' = u.visit.player
    /\ crashed' = TRUE
    /\ last' = [NoTick EXCEPT !.op = "tick", !.mode = "threw", !.destroyedBefore = destroyed,
                              !.timestamp = timestamp, !.deltaTime = timestamp - lastTime]
    /\ UNCHANGED << bullets, asteroids, destroyedAsteroid, destroyed >>

TickRunning(timestamp, u, rs) ==
    /\ ~u.visit.threw
    /\ lastTime' = timestamp
    /\ isTouch' = u.mode
    /\ \E h \in HitTimes(HealTimes({u.moved.health}, u.heals), u.hits) :
          player' = [u.moved EXCEPT !.health = h]
    /\ bullets' = u.bullets
    /\ destroyedAsteroid' = u.destroyedAsteroid
    /\ destroyed' = u.destroyed
    /\ \E count \in {SpawnCount(Len(u.asteroids), u.destroyed)} :
          /\ asteroids' = IF count > 0
                          THEN Game_addAsteroids(u.asteroids, count, canvas, timestamp, rs)
                          ELSE u.asteroids
          /\ last' = [NoTick EXCEPT !.op = "tick", !.mode = "running",
                          !.fired = u.visit.fired, !.heals = u.heals, !.hitters = u.hitters,
                          !.hits = u.hits, !.spawned = count,
                          !.removedBullets = u.removedBullets,
                          !.removedAsteroids = u.removedAsteroids,
                          !.destroyedBefore = destroyed,
                          !.timestamp = timestamp, !.deltaTime = timestamp - lastTime]
    /\ UNCHANGED crashed

\* paintUI: the number the score readout prints,
\* `${this.destroyedAsteroid.length} destroyed - ...`
Game_score == Len(destroyedAsteroid)

Game_tick ==
    /\ ~crashed
    /\ ticks < MaxTicks
    /\ ticks' = ticks + 1
    /\ UNCHANGED << dimensions, canvas, keys, touchEvent, events >>
    /\ \E delay \in FrameDelays :
          LET timestamp == lastTime + delay
          IN  \/ TickGameOver(timestamp)
              \/ \E lag \in NowLags, rs \in RandomStates : TickRestart(timestamp, timestamp + lag, rs)
              \/ /\ Player_isAlive(player.health)
                 /\ \E u \in {RunningUpdate(timestamp, delay)} :
                       \/ TickThrows(timestamp, u)
                       \/ \E rs \in RandomStates : TickRunning(timestamp, u, rs)

Next ==
    \/ \E k \in Keys : handleKeyDown(k)
    \/ \E k \in Keys : handleKeyUp(k)
    \/ \E e \in TouchEvents : handleTouchMove(e)
    \/ handleTouchEnd
    \/ \E d \in WindowsAfterResize : Game_resize(d)
    \/ Game_tick

Spec == Init /\ [][Next]_vars

\* ------------------------------------------------------------------------
\* The ship called directly: any sequence of hit, heal, move and fire on a
\* newly constructed Player (ShipSpec).  The game around it stands still.
\* ------------------------------------------------------------------------
Directions ==
    { Vec(0, 0), Vec(One, 0), Vec(0 - One, One), Vec(NaN, NaN) }

shipFrame == << bullets, asteroids, destroyedAsteroid, destroyed, lastTime, dimensions,
                canvas, isTouch, keys, touchEvent, crashed, ticks, events >>

CallHit ==
    /\ \E rnd \in Rounding : player' = [player EXCEPT !.health = Player_hit(@, rnd)]
    /\ last' = Event("hit")
    /\ UNCHANGED shipFrame

CallHeal ==
    /\ \E rnd \in Rounding : player' = [player EXCEPT !.health = Player_heal(@, rnd)]
    /\ last' = Event("heal")
    /\ UNCHANGED shipFrame

CallMove(d) ==
    /\ player' = Player_move(player, d)
    /\ last' = [Event("move") EXCEPT !.direction = << d >>]
    /\ UNCHANGED shipFrame

\* fire mutates nothing: it returns a Bullet or throws
CallFire(d) ==
    /\ \E res \in {Player_fire(player, d)} :
          last' = [Event("fire") EXCEPT
                      !.direction = << d >>,
                      !.mode = IF res.threw THEN "threw" ELSE "returned",
                      !.fired = IF res.threw THEN << >> ELSE << res.bullet >>]
    /\ UNCHANGED player
    /\ UNCHANGED shipFrame

ShipNext ==
    \/ CallHit
    \/ CallHeal
    \/ \E d \in Directions : CallMove(d)
    \/ \E d \in Directions : CallFire(d)

ShipSpec == Init /\ [][ShipNext]_vars

\* ------------------------------------------------------------------------
\* checkCollision called directly on any two boxes (BoxSpec).  The game
\* stands still; the call and what it returned are in last.
\* ------------------------------------------------------------------------
BoxCoords == { Px(0), Px(10), Px(15), Px(25), NaN }
BoxSizes == { BulletSize, AsteroidSize, PlayerSize }
Boxes == [position : [x : BoxCoords, y : BoxCoords], size : BoxSizes]

\* the two boxes the call is about to be made on
BoxInit ==
    /\ Game_new
    /\ \E a \in Boxes, b \in Boxes : last = [NoTick EXCEPT !.op = "boxes", !.args = << a, b >>]

CallCheckCollision ==
    /\ last.op = "boxes"
    /\ last' = [last EXCEPT
                    !.op = "checkCollision",
                    !.result = << Game_checkCollision(last.args[1].position, last.args[1].size,
                                                      last.args[2].position, last.args[2].size) >>]
    /\ UNCHANGED << player, shipFrame >>

BoxNext == CallCheckCollision

BoxSpec == BoxInit /\ [][BoxNext]_vars

\* ------------------------------------------------------------------------
\* A game well under way (LateSpec): ticks without input, from a state long
\* play leads to.  Over a long game destroyedAsteroid has kept
\* every obstacle destroyed since the last restart.
\* ------------------------------------------------------------------------
\* the time of the latest tick, and how long ago the obstacles now live were
\* spawned and the destroyed ones were hit
LateNow == {60000}
LateAge == {1000}
\* obstacles destroyed so far, and obstacles live (8 or more after any tick)
LateDestroyed == {48, 55}
LateLive == {8, 9}

\* obstacles a bullet destroyed at the time t
Casualties(count, cv, start, t, rs) ==
    [i \in 1..count |-> Asteroid_hit(NewAsteroids(count, cv, start, rs)[i], t)]

LateInit ==
    \E now \in LateNow, age \in LateAge, d \in LateDestroyed, n \in LateLive,
       rs \in RandomStates :
        /\ dimensions = Dim(Px(DefaultCanvasWidth), Px(DefaultCanvasHeight))
        /\ canvas = WindowAtSetup
        /\ isTouch = FALSE
        /\ player = Player_new(Center(canvas))
        /\ lastTime = now
        /\ bullets = << >>
        /\ destroyedAsteroid = Casualties(d, canvas, now - 2 * age, now - age, rs)
        /\ destroyed = d
        /\ asteroids = NewAsteroids(n, canvas, now - age, rs)
        /\ keys = {}
        /\ touchEvent = << >>
        /\ crashed = FALSE
        /\ ticks = 0
        /\ events = 0
        /\ last = NoTick

LateNext == Game_tick

LateSpec == LateInit /\ [][LateNext]_vars

\* ------------------------------------------------------------------------
\* accept called directly (VisitSpec): one visitor, dispatched any number of
\* times onto the ship, the projectiles and the obstacles of a game.  The
\* visitor is in last.args.
\* ------------------------------------------------------------------------
ArrowKeys == {"ArrowLeft", "ArrowRight", "ArrowUp", "ArrowDown"}

Visitors ==
    {[kind |-> "canvas"], [kind |-> "terminal"]}
    \cup {[kind |-> "keyboard", keys |-> ks \cup fs] :
             ks \in SUBSET ArrowKeys, fs \in {{}, {"d"}, {"w", "s"}}}
    \cup {[kind |-> "touch", touchEvent |-> e] : e \in TouchEvents \cup {<< >>}}

\* the ship of a game under way: at rest or under way, unhurt, hurt or dead
Ships ==
    {[position |-> Vec(Px(100), Px(50)), velocity |-> v, health |-> h] :
        v \in {Player_move(Player_new(Vec(0, 0)), d).velocity :
                   d \in {Vec(0, 0), Vec(One, 0), Vec(0 - One, One)}},
        h \in {FullHealth, [n |-> 40, r |-> 1], [n |-> 0, r |-> 0]}}

VisitInit ==
    \E now \in LateNow, age \in LateAge, ship \in Ships, rs \in RandomStates,
       visitor \in Visitors :
        /\ dimensions = Dim(Px(DefaultCanvasWidth), Px(DefaultCanvasHeight))
        /\ canvas = WindowAtSetup
        /\ isTouch = FALSE
        /\ player = ship
        /\ lastTime = now
        /\ bullets = << Player_fire(ship, Vec(One, 0)).bullet >>
        /\ destroyedAsteroid = Casualties(2, canvas, now - 2 * age, now - age, rs)
        /\ destroyed = 2
        /\ asteroids = NewAsteroids(InitialBatch, canvas, now - age, rs)
        /\ keys = {}
        /\ touchEvent = << >>
        /\ crashed = FALSE
        /\ ticks = 0
        /\ events = 0
        /\ last = [NoTick EXCEPT !.op = "visitor", !.args = << visitor >>]

\* what accept did, for the history: before is the entity as it was
Dispatched(type, before, r) ==
    [last EXCEPT !.op = "accept", !.mode = type, !.fired = r.fired,
                 !.result = << [threw |-> r.threw, warned |-> r.warned,
                                before |-> before] >>]

CallPlayerAccept ==
    \E r \in {Entity_accept("Player", player, last.args[1])} :
        /\ player' = r.entity
        /\ last' = Dispatched("Player", player, r)
        /\ UNCHANGED shipFrame

CallBulletAccept ==
    \E i \in DOMAIN bullets :
        \E r \in {Bullet_accept(bullets[i], last.args[1])} :
            /\ bullets' = [bullets EXCEPT ![i] = r.entity]
            /\ last' = Dispatched("Bullet", bullets[i], r)
            /\ UNCHANGED << player, asteroids, destroyedAsteroid, destroyed, lastTime,
                            dimensions, canvas, isTouch, keys, touchEvent, crashed, ticks,
                            events >>

CallAsteroidAccept ==
    \/ \E i \in DOMAIN asteroids :
          \E r \in {Asteroid_accept(asteroids[i], last.args[1])} :
              /\ asteroids' = [asteroids EXCEPT ![i] = r.entity]
              /\ last' = Dispatched("Asteroid", asteroids[i], r)
              /\ UNCHANGED << player, bullets, destroyedAsteroid, destroyed, lastTime,
                              dimensions, canvas, isTouch, keys, touchEvent, crashed, ticks,
                              events >>
    \/ \E i \in DOMAIN destroyedAsteroid :
          \E r \in {Asteroid_accept(destroyedAsteroid[i], last.args[1])} :
              /\ destroyedAsteroid' = [destroyedAsteroid EXCEPT ![i] = r.entity]
              /\ last' = Dispatched("Asteroid", destroyedAsteroid[i], r)
              /\ UNCHANGED << player, bullets, asteroids, destroyed, lastTime,
                              dimensions, canvas, isTouch, keys, touchEvent, crashed, ticks,
                              events >>

VisitNext ==
    \/ CallPlayerAccept
    \/ CallBulletAccept
    \/ CallAsteroidAccept

VisitSpec == VisitInit /\ [][VisitNext]_vars

\* ------------------------------------------------------------------------
\* Asteroid.hit and Asteroid.intersectPlayer called directly (RockSpec), any
\* number of times, on the obstacles a game has destroyed: one by a
\* projectile, one by the ship.
\* ------------------------------------------------------------------------
\* the timestamps handed to the calls, as offsets from the last-seen one
CallOffsets == {0, 50, 2000}

RockInit ==
    \E now \in LateNow, age \in LateAge, rs \in RandomStates :
        /\ dimensions = Dim(Px(DefaultCanvasWidth), Px(DefaultCanvasHeight))
        /\ canvas = WindowAtSetup
        /\ isTouch = FALSE
        /\ player = [Player_new(Center(canvas)) EXCEPT
                         !.health = Player_heal(Player_hit(FullHealth, 0), 0)]
        /\ lastTime = now
        /\ bullets = << >>
        /\ destroyedAsteroid =
              << Asteroid_hit(NewAsteroids(2, canvas, now - 2 * age, rs)[1], now - age),
                 Asteroid_intersectPlayer(NewAsteroids(2, canvas, now - 2 * age, rs)[2],
                                          now - age) >>
        /\ destroyed = 2
        /\ asteroids = NewAsteroids(InitialBatch, canvas, now - age, rs)
        /\ keys = {}
        /\ touchEvent = << >>
        /\ crashed = FALSE
        /\ ticks = 0
        /\ events = 0
        /\ last = NoTick

rockFrame == << player, bullets, asteroids, destroyed, lastTime, dimensions, canvas,
                isTouch, keys, touchEvent, crashed, ticks, events >>

CallAsteroidHit(i, timestamp) ==
    /\ destroyedAsteroid' = [destroyedAsteroid EXCEPT ![i] = Asteroid_hit(@, timestamp)]
    /\ last' = [Event("Asteroid.hit") EXCEPT !.args = << i, timestamp >>]
    /\ UNCHANGED rockFrame

CallAsteroidIntersectPlayer(i, timestamp) ==
    /\ destroyedAsteroid' =
          [destroyedAsteroid EXCEPT ![i] = Asteroid_intersectPlayer(@, timestamp)]
    /\ last' = [Event("Asteroid.intersectPlayer") EXCEPT !.args = << i, timestamp >>]
    /\ UNCHANGED rockFrame

RockNext ==
    \/ \E i \in DOMAIN destroyedAsteroid, d \in CallOffsets : CallAsteroidHit(i, lastTime + d)
    \/ \E i \in DOMAIN destroyedAsteroid, d \in CallOffsets :
          CallAsteroidIntersectPlayer(i, lastTime + d)

RockSpec == RockInit /\ [][RockNext]_vars

\* ========================================================================
\* Claims
\* ========================================================================
\* a step that is one call of tick
IsTick == ticks' = ticks + 1

\* the restart trigger as the claims word it
ClaimedTrigger ==
    "Enter" \in keys \/ (touchEvent # << >> /\ Len(touchEvent) = 3)

\* C1: after construction and after the update of every tick, whatever the
\* ticks, inputs and resizes before, at least 8 obstacles are live.
C1_SpawnFloor == Len(asteroids) >= 8

\* a running tick found fewer than 8 live obstacles and spawned a batch
C1_Witness ==
    /\ last.mode = "running"
    /\ last.spawned > 0
    /\ Len(asteroids) - last.spawned < 8

\* C2: the destroyed-count decreases in no step but a tick that restarts,
\* and a tick that restarts leaves it at 0.
C2_DestroyedCount ==
    [][ /\ destroyed' < destroyed => (IsTick /\ last'.mode = "restart")
        /\ (IsTick /\ last'.mode = "restart") => destroyed' = 0 ]_vars

\* a restart that reset a positive count
C2_Witness ==
    /\ last.mode = "restart"
    /\ last.destroyedBefore > 0
    /\ destroyed = 0

\* 0 <= health <= 1 and health = 0, on the health representation
HealthInRange(h) ==
    /\ h.n > 0 \/ (h.n = 0 /\ h.r >= 0)
    /\ h.n < 100 \/ (h.n = 100 /\ h.r <= 0)

HealthIsZero(h) == h.n = 0 /\ h.r = 0

\* C3: under any sequence of hit and heal from health 1 the health stays
\* within [0, 1], and isAlive() is false exactly when the health is 0.
C3_HealthClamped ==
    /\ HealthInRange(player.health)
    /\ ~Player_isAlive(player.health) <=> HealthIsZero(player.health)

\* a hit took the health to exactly 0
C3_Witness == last.op = "hit" /\ HealthIsZero(player.health)

\* C4: a tick with the ship not alive and without a restart trigger changes
\* nothing of the ship, the projectiles, the live and the destroyed
\* obstacles, the destroyed-count and the input mode; the last-seen
\* timestamp becomes the tick's.
C4_GameOverFrame ==
    [][ (IsTick /\ ~Player_isAlive(player.health) /\ ~ClaimedTrigger)
        => /\ player' = player
           /\ bullets' = bullets
           /\ asteroids' = asteroids
           /\ destroyedAsteroid' = destroyedAsteroid
           /\ destroyed' = destroyed
           /\ isTouch' = isTouch
           /\ lastTime' = last'.timestamp ]_vars

\* a game-over tick ran, with input present and time passing
C4_Witness ==
    /\ last.mode = "gameover"
    /\ last.deltaTime > 0
    /\ touchEvent # << >>

\* the state a restart leaves
AfterRestart ==
    /\ player.health = [n |-> 100, r |-> 0]
    /\ player.velocity = Vec(0, 0)
    /\ player.position = Vec(dimensions.width \div 2, dimensions.height \div 2)
    /\ bullets = << >>
    /\ destroyedAsteroid = << >>
    /\ destroyed = 0
    /\ Len(asteroids) = 10
    /\ \A i \in DOMAIN asteroids :
          /\ asteroids[i].deathTimestamp = << >>
          /\ asteroids[i].startTimestamp = lastTime

\* C5: a tick resets the state exactly when the ship is not alive at its
\* start and a restart trigger is present (Enter, or a touch event with
\* three touches); the reset leaves health 1, zero velocity, the ship at
\* the centre of the stored viewport, no projectile, no destroyed obstacle,
\* destroyed-count 0 and exactly 10 new live obstacles.
C5_Restart ==
    [][ IsTick
        => /\ last'.mode = "restart" <=> (~Player_isAlive(player.health) /\ ClaimedTrigger)
           /\ last'.mode = "restart" => AfterRestart' ]_vars

\* a restart by the three-finger gesture, after a resize
C5_Witness ==
    /\ last.mode = "restart"
    /\ Len(touchEvent) = 3
    /\ dimensions = canvas

\* C6 as claimed: in a running tick a touch event present makes the mode
\* touch, also with keys pressed; else a pressed key makes it keyboard;
\* else the mode stays.
C6_TouchFirst ==
    [][ (IsTick /\ Player_isAlive(player.health))
        => isTouch' = (IF touchEvent # << >> THEN TRUE
                       ELSE IF keys # {} THEN FALSE ELSE isTouch) ]_vars

\* C6 as amended: in a running tick a pressed key makes the mode keyboard,
\* also with a touch event present; else a touch event present makes it
\* touch; else the mode stays.
C6_KeysFirst ==
    [][ (IsTick /\ Player_isAlive(player.health))
        => isTouch' = (IF keys # {} THEN FALSE
                       ELSE IF touchEvent # << >> THEN TRUE ELSE isTouch) ]_vars

\* a running tick with a key pressed and a touch event present
C6_Witness ==
    /\ last.mode = "running"
    /\ keys # {}
    /\ touchEvent # << >>
    /\ ~isTouch

\* the velocity is a number pair of length 1000, to the rounding of the
\* velocity components (1 pixel/second)
HasBulletSpeed(v) ==
    /\ ~IsNaN(v.x)
    /\ ~IsNaN(v.y)
    /\ v.x * v.x + v.y * v.y >= (1000 - 1) * (1000 - 1)
    /\ v.x * v.x + v.y * v.y <= (1000 + 1) * (1000 + 1)

\* C7: every live projectile has a well-defined velocity of magnitude 1000
\* (fire is only ever invoked with a direction of non-zero, defined length).
C7_BulletSpeed ==
    \A i \in DOMAIN bullets : HasBulletSpeed(bullets[i].velocity)

\* C8: fire called with the direction (0,0) raises an error and returns no
\* projectile, and leaves the ship's position, velocity and health as
\* they were.
C8_FireZeroThrows ==
    [][ (last'.op = "fire" /\ last'.direction = << Vec(0, 0) >>)
        => /\ last'.mode = "threw"
           /\ last'.fired = << >>
           /\ player' = player ]_vars

\* fire((0,0)) was called on a ship that is moving and damaged
C8_Witness ==
    /\ last.op = "fire"
    /\ last.direction = << Vec(0, 0) >>
    /\ last.mode = "threw"
    /\ player.velocity # Vec(0, 0)
    /\ player.health.n < 100

\* outside the visible bounds, as the removal step tests it
OutOfBounds(position) ==
    \/ Lt(position.x, 0)
    \/ Gt(position.x, canvas.width)
    \/ Lt(position.y, 0)
    \/ Gt(position.y, canvas.height)

Inside(e) == ~OutOfBounds(e.position)

\* the projectiles the removal step of this tick keeps: the ones before the
\* tick and the one fired in it, less those outside the bounds
KeptBullets == SelectSeq(bullets \o last'.fired, Inside)

\* C9 as claimed: a running tick takes out of the live projectiles those
\* outside the visible bounds and those that hit a live obstacle in it.
C9_RemovedOnHit ==
    [][ (IsTick /\ last'.mode = "running")
        => Len(bullets') = Len(KeptBullets) - last'.hitters ]_vars

\* C9 as amended: a running tick takes out of the live projectiles exactly
\* those its removal step finds outside the visible bounds (a projectile
\* that moves out in one tick goes in the next); one that hits a live
\* obstacle stays.
C9_RemovedOffscreenOnly ==
    [][ (IsTick /\ last'.mode = "running")
        => /\ Len(bullets') = Len(KeptBullets)
           /\ \A i \in DOMAIN KeptBullets :
                 bullets'[i].velocity = KeptBullets[i].velocity ]_vars

\* a projectile hit an obstacle in a running tick and is still live
C9_Witness ==
    /\ last.mode = "running"
    /\ last.hitters > 0
    /\ Len(bullets) >= last.hitters

\* timestamps of later frames, as offsets from the last-seen timestamp
FadeOffsets == {0, 50, 200, 1000, 2000, 2050}

FadeOk(a) ==
    \A d1 \in FadeOffsets, d2 \in FadeOffsets :
        d1 <= d2 =>
            LET f1 == Asteroid_getFade(a, lastTime + d1)
                f2 == Asteroid_getFade(a, lastTime + d2)
            IN  /\ 0 <= f1 /\ f1 <= AlphaOne
                /\ a.deathTimestamp = << >> => f1 <= f2
                /\ a.deathTimestamp # << >> => f1 >= f2

\* C10: for every obstacle, live or destroyed, and the timestamps the
\* renderer passes from now on, the fade lies in [0, 1], does not decrease
\* with the timestamp while the obstacle is not killed and does not
\* increase once it is killed (also when killed at timestamp 0).
C10_FadeMonotone ==
    /\ \A i \in DOMAIN asteroids : FadeOk(asteroids[i])
    /\ \A i \in DOMAIN destroyedAsteroid : FadeOk(destroyedAsteroid[i])

\* both boxes have a position (no NaN coordinate)
Placed(a) == ~IsNaN(a.position.x) /\ ~IsNaN(a.position.y)

\* the closed boxes meet, and on one axis they meet in a single coordinate
SharesOnlyBoundary(a, b) ==
    /\ Placed(a) /\ Placed(b)
    /\ a.position.x <= b.position.x + b.size.width
    /\ b.position.x <= a.position.x + a.size.width
    /\ a.position.y <= b.position.y + b.size.height
    /\ b.position.y <= a.position.y + a.size.height
    /\ \/ a.position.x + a.size.width = b.position.x
       \/ b.position.x + b.size.width = a.position.x
       \/ a.position.y + a.size.height = b.position.y
       \/ b.position.y + b.size.height = a.position.y

\* C11: for every two boxes A and B, checkCollision(A, B) returns what
\* checkCollision(B, A) returns, and it returns false when A and B share
\* only an edge or a corner.
C11_CollisionSymmetric ==
    last.op = "checkCollision" =>
        LET a == last.args[1]
            b == last.args[2]
        IN  /\ last.result[1] = Game_checkCollision(b.position, b.size, a.position, a.size)
            /\ SharesOnlyBoundary(a, b) => ~last.result[1]

\* checkCollision was called on two boxes of different sizes that share
\* only a corner
C11_Witness ==
    /\ last.op = "checkCollision"
    /\ last.args[1].size # last.args[2].size
    /\ last.args[1].position.x + last.args[1].size.width = last.args[2].position.x
    /\ last.args[1].position.y + last.args[1].size.height = last.args[2].position.y
    /\ SharesOnlyBoundary(last.args[1], last.args[2])
    /\ ~last.result[1]

\* the live obstacles the removal step of this tick keeps
KeptAsteroids == SelectSeq(asteroids, Inside)

\* the live obstacles left when the update of this tick reaches the floor
\* check: the ones kept less the ones destroyed in the tick
LiveAtFloorCheck == Len(KeptAsteroids) - (destroyed' - destroyed)

\* C12: the update of a running tick adds obstacles exactly when fewer than
\* 8 are live at its end, and then it adds 10 * (1 + floor(d / 50)) of
\* them, d the destroyed-count with the kills of this tick.
C12_SpawnBatch ==
    [][ (IsTick /\ last'.mode = "running")
        => LET added == Len(asteroids') - LiveAtFloorCheck
           IN  /\ added >= 0
               /\ added > 0 <=> LiveAtFloorCheck < 8
               /\ LiveAtFloorCheck < 8 => added = 10 * (1 + destroyed' \div 50) ]_vars

\* a running tick took the destroyed-count from below 50 to 50 or more and
\* added a batch of 20
C12_Witness ==
    /\ last.mode = "running"
    /\ last.destroyedBefore < 50
    /\ destroyed >= 50
    /\ last.spawned = 20

\* the entity kinds the visitor in last.args has no callback for
Lacking(type) ==
    \/ type = "Bullet" /\ last.args[1].kind \in {"keyboard", "touch", "terminal"}
    \/ type = "Asteroid" /\ last.args[1].kind \in {"keyboard", "touch", "terminal"}

\* C13: a visitor dispatched onto an entity of a kind it has no callback
\* for raises no error, returns nothing and leaves the ship, the projectiles
\* and the obstacles as they were.
C13_MissingCallback ==
    [][ (last'.op = "accept" /\ Lacking(last'.mode))
        => /\ ~last'.result[1].threw
           /\ last'.fired = << >>
           /\ player' = player
           /\ bullets' = bullets
           /\ asteroids' = asteroids
           /\ destroyedAsteroid' = destroyedAsteroid ]_vars

\* a keyboard interpreter with steering and firing keys pressed was
\* dispatched onto an obstacle
C13_Witness ==
    /\ last.op = "accept"
    /\ last.mode = "Asteroid"
    /\ last.args[1].kind = "keyboard"
    /\ {"ArrowLeft", "d"} \subseteq last.args[1].keys
    /\ last.result[1].warned

\* +1, 0 or -1: the sum of the keys plus and minus of one axis
KeyAxis(ks, minus, plus) ==
    (IF plus \in ks THEN 1 ELSE 0) - (IF minus \in ks THEN 1 ELSE 0)

\* v is (sx, sy) divided by its length and multiplied by 500, to the
\* rounding of the velocity components (1 pixel/second); (0,0) for the sum
\* (0,0)
IsSteered(v, sx, sy) ==
    IF sx = 0 /\ sy = 0 THEN v = Vec(0, 0)
    ELSE /\ v.x * sy = v.y * sx
         /\ v.x * sx >= 0
         /\ v.y * sy >= 0
         /\ v.x * v.x + v.y * v.y >= (500 - 1) * (500 - 1)
         /\ v.x * v.x + v.y * v.y <= (500 + 1) * (500 + 1)

\* C15: the keyboard interpreter visiting a ship that is alive leaves its
\* velocity at the sum of the pressed arrow keys, normalized and scaled by
\* 500, and at exactly (0,0) when the sum is zero.
C15_KeyboardSteering ==
    [][ (/\ last'.op = "accept"
         /\ last'.mode = "Player"
         /\ last'.args[1].kind = "keyboard"
         /\ Player_isAlive(player.health))
        => IsSteered(player'.velocity,
                     KeyAxis(last'.args[1].keys, "ArrowLeft", "ArrowRight"),
                     KeyAxis(last'.args[1].keys, "ArrowUp", "ArrowDown")) ]_vars

\* a ship under way was visited with both keys of both pairs pressed, and
\* stands still
C15_Witness ==
    /\ last.op = "accept"
    /\ last.mode = "Player"
    /\ last.args[1].kind = "keyboard"
    /\ ArrowKeys \subseteq last.args[1].keys
    /\ last.result[1].before.velocity # Vec(0, 0)
    /\ Player_isAlive(player.health)
    /\ player.velocity = Vec(0, 0)

\* C14: resize(d) leaves the stored dimensions and the size of the drawing
\* surface at d, and leaves the ship, the projectiles, the live and the
\* destroyed obstacles, the destroyed-count, the input mode and the
\* last-seen timestamp as they were.
C14_Resize ==
    [][ (events' = events + 1 /\ last'.op = "resize")
        => /\ dimensions' = last'.args[1]
           /\ canvas' = last'.args[1]
           /\ player' = player
           /\ bullets' = bullets
           /\ asteroids' = asteroids
           /\ destroyedAsteroid' = destroyedAsteroid
           /\ destroyed' = destroyed
           /\ isTouch' = isTouch
           /\ lastTime' = lastTime ]_vars

\* a resize to a narrower surface, after a tick, with a live obstacle that
\* was inside the bounds and is outside the new ones
C14_Witness ==
    /\ last.op = "resize"
    /\ ticks > 0
    /\ dimensions = canvas
    /\ \E i \in DOMAIN asteroids :
          /\ asteroids[i].position.x > canvas.width
          /\ asteroids[i].position.x <= WindowAtSetup.width
          /\ asteroids[i].position.y <= WindowAtSetup.height

\* An obstacle is dead when it has a death timestamp.  The live obstacles
\* have none and the destroyed ones all have one, so no obstacle is in both
\* collections; the destroyed ones have velocity (0,0).
DeadApart ==
    /\ \A i \in DOMAIN asteroids : asteroids[i].deathTimestamp = << >>
    /\ \A i \in DOMAIN destroyedAsteroid :
          /\ destroyedAsteroid[i].deathTimestamp # << >>
          /\ destroyedAsteroid[i].velocity = Vec(0, 0)

\* every destroyed obstacle stays where it is in the destroyed collection,
\* with its position, velocity, color and timestamps
DeadStay ==
    /\ Len(destroyedAsteroid') >= Len(destroyedAsteroid)
    /\ SubSeq(destroyedAsteroid', 1, Len(destroyedAsteroid)) = destroyedAsteroid

\* C16: in every state no live obstacle has a death timestamp and every
\* obstacle with one is in the destroyed collection with velocity (0,0);
\* in every step but a restart the obstacles of the destroyed collection
\* stay in it and change neither position nor velocity.
C16_DeadStayDead ==
    /\ []DeadApart
    /\ [][ ~(IsTick /\ last'.mode = "restart") => DeadStay ]_vars

\* a running tick with time passing and obstacles moving, after an earlier
\* tick in which the ship destroyed an obstacle
C16_Witness ==
    /\ last.mode = "running"
    /\ last.deltaTime > 0
    /\ \E i \in 1..last.destroyedBefore : destroyedAsteroid[i].color = "green"
    /\ \E j \in DOMAIN asteroids : asteroids[j].velocity # Vec(0, 0)

\* the boxes of a projectile and of an obstacle overlap on both axes
Overlap(b, a) ==
    /\ Placed(b)
    /\ b.position.x < a.position.x + AsteroidSize.width
    /\ a.position.x < b.position.x + BulletSize.width
    /\ b.position.y < a.position.y + AsteroidSize.height
    /\ a.position.y < b.position.y + BulletSize.height

\* the obstacles of ka a projectile of kb overlaps, as indices into ka
Shot(ka, kb) ==
    {i \in DOMAIN ka : \E j \in DOMAIN kb : Overlap(kb[j], ka[i])}

\* the obstacles this tick appended to the destroyed collection
NewlyDestroyed ==
    SubSeq(destroyedAsteroid', Len(destroyedAsteroid) + 1, Len(destroyedAsteroid'))

MarkedHit(a, timestamp) ==
    [a EXCEPT !.velocity = Vec(0, 0), !.color = "yellow", !.deathTimestamp = << timestamp >>]

\* C17: in a running tick every live obstacle a projectile overlaps is
\* destroyed, however many one projectile overlaps: with k of them, k
\* obstacles marked hit are appended to the destroyed collection and leave
\* the live one, the ship is healed k times, the destroyed-count grows by k
\* (and by the obstacles the ship hit), and every projectile stays.
C17_MultiKill ==
    [][ (IsTick /\ last'.mode = "running")
        => \E ka \in {KeptAsteroids}, kb \in {KeptBullets}, nd \in {NewlyDestroyed} :
             \E shot \in {Shot(ka, kb)} :
               \E k \in {Cardinality(shot)} :
                 /\ last'.heals = k
                 /\ Cardinality({i \in DOMAIN nd : nd[i].color = "yellow"}) = k
                 /\ \A i \in shot :
                       \E j \in DOMAIN nd : nd[j] = MarkedHit(ka[i], last'.timestamp)
                 /\ destroyed' = destroyed + k + last'.hits
                 /\ Len(asteroids') - last'.spawned = Len(ka) - k - last'.hits
                 /\ last'.hits = 0 => player'.health.n = Min(100, player.health.n + k)
                 /\ Len(bullets') = Len(kb) ]_vars

\* one projectile destroyed several obstacles in one tick and is live
C17_Witness ==
    /\ last.mode = "running"
    /\ last.hitters = 1
    /\ last.heals >= 2
    /\ Len(bullets) = 1
    /\ destroyed = last.destroyedBefore + last.heals + last.hits

\* C18: Asteroid.hit or Asteroid.intersectPlayer called on an obstacle
\* that has a death timestamp leaves its death timestamp and its color as
\* the first call set them.
C18_FirstCallMatters ==
    [][ last'.op \in {"Asteroid.hit", "Asteroid.intersectPlayer"}
        => \A i \in DOMAIN destroyedAsteroid :
              destroyedAsteroid[i].deathTimestamp # << >>
              => /\ destroyedAsteroid'[i].deathTimestamp = destroyedAsteroid[i].deathTimestamp
                 /\ destroyedAsteroid'[i].color = destroyedAsteroid[i].color ]_vars

\* a is the obstacle b as a sweep of the tick at timestamp marks it
MarkedOf(a, b, timestamp) ==
    /\ a.color \in {"yellow", "green"}
    /\ a = [b EXCEPT !.velocity = Vec(0, 0), !.color = a.color,
                      !.deathTimestamp = << timestamp >>]

\* C19: the removal step of a running tick drops the projectiles and the
\* live obstacles with x < 0, y < 0, x > width or y > height and keeps the
\* others, those on a bound included; it runs before the sweeps: only kept
\* projectiles destroy, only kept obstacles are destroyed, and a dropped
\* obstacle is neither counted nor put into the destroyed collection.  The
\* width and height are the ones the removal step reads, canvas.width and
\* canvas.height.
C19_OffscreenRemoval ==
    [][ (IsTick /\ last'.mode = "running")
        => \E ka \in {KeptAsteroids}, kb \in {KeptBullets}, nd \in {NewlyDestroyed} :
             /\ Len(bullets') = Len(kb)
             /\ \A i \in DOMAIN kb : bullets'[i].velocity = kb[i].velocity
             /\ last'.removedBullets = Len(bullets) + Len(last'.fired) - Len(kb)
             /\ last'.removedAsteroids = Len(asteroids) - Len(ka)
             /\ last'.heals = Cardinality(Shot(ka, kb))
             /\ destroyed' - destroyed = Len(nd)
             /\ \A j \in DOMAIN nd :
                   \E i \in DOMAIN ka : MarkedOf(nd[j], ka[i], last'.timestamp)
             /\ Len(asteroids') - last'.spawned = Len(ka) - Len(nd) ]_vars

\* a running tick kept the projectile it fired, which was exactly on the
\* right bound, and dropped obstacles
C19_Witness ==
    /\ last.mode = "running"
    /\ last.removedAsteroids > 0
    /\ last.fired # << >>
    /\ last.fired[1].position.x = canvas.width
    /\ Len(bullets) >= 1
    /\ bullets[Len(bullets)].velocity = last.fired[1].velocity

\* C20: in every tick after the first, the elapsed time the update is
\* given is the timestamp of this tick minus the timestamp of the tick
\* before, and it is not negative (the timestamps the host hands in never
\* decrease), also in the first tick after a restart.
C20_ElapsedSincePreviousTick ==
    [][ (IsTick /\ ticks > 0)
        => /\ last'.deltaTime = last'.timestamp - last.timestamp
           /\ last'.deltaTime >= 0 ]_vars

\* C21: in every state the destroyed-count is the number of obstacles in
\* the destroyed collection, which is the number the score readout prints.
C21_ScoreIsCount ==
    /\ destroyed = Len(destroyedAsteroid)
    /\ Game_score = destroyed

\* a running tick in which projectiles destroyed obstacles, after a tick
\* that had destroyed others
C21_Witness ==
    /\ last.mode = "running"
    /\ last.heals > 0
    /\ last.destroyedBefore > 0
    /\ destroyed = last.destroyedBefore + last.heals + last.hits
    /\ Game_score = destroyed

\* C22: in every tick the stored dimensions are the pixel dimensions of
\* the drawing surface, whatever construction, sizing of the surface and
\* resizes came before.
C22_ViewportIsSurface ==
    [][ IsTick => dimensions = canvas ]_vars

====
